---- MODULE Spec2Model ----
(***************************************************************************)
(* Room-based chat relay: the message store (message_server.py), the       *)
(* socket.io event handlers (socketio_server.py) and the command-line      *)
(* client (socketio_client.py).                                            *)
(*                                                                         *)
(* Every handler runs on behalf of one connection.  A handler is split     *)
(* into the steps between which another handler may run (the server has    *)
(* no lock): Spec interleaves the steps of different connections, SeqSpec  *)
(* starts a handler only when no other handler is in flight.               *)
(* DeliverySpec interleaves message and join handlers of one room and      *)
(* records what every connection receives.  ClientSpec runs one client     *)
(* process against the server.                                             *)
(***************************************************************************)
EXTENDS Integers, Sequences, FiniteSets, TLC

\* ---------------------------------------------------------------- bounds
NumConns == 2
\* Messages stored in one run when handlers interleave, and when they do not.
MaxMsgs == 2
MaxSeqMsgs == 3

Conns == 1..NumConns

\* A missing field and an empty one are both falsy for the handlers.
NoVal == ""
\* Room values a client can put in the payload: JSON strings ("s:...") and
\* JSON numbers ("n:...").  "s:1" is the string "1", "n:1" the number 1.
StrRooms == {"s:1"}
NumRooms == {"n:1"}
Rooms == StrRooms \cup NumRooms
Names == {"a"}
Texts == {"x"}

NoReq == [room |-> NoVal, name |-> NoVal, message |-> NoVal]

\* The payloads of message events: every field present, ...
ValidMessagePayloads == [room : Rooms, name : Names, message : Texts]
\* ... or one field missing, or all of them.
InvalidMessagePayloads ==
    {[d EXCEPT !.room = NoVal] : d \in ValidMessagePayloads}
        \cup {[d EXCEPT !.name = NoVal] : d \in ValidMessagePayloads}
        \cup {[d EXCEPT !.message = NoVal] : d \in ValidMessagePayloads}
        \cup {NoReq}
MessagePayloads == ValidMessagePayloads \cup InvalidMessagePayloads

\* The payloads of join and leave events carry no text.
ValidRoomPayloads == [room : Rooms, name : Names, message : {NoVal}]
InvalidRoomPayloads ==
    {[d EXCEPT !.room = NoVal] : d \in ValidRoomPayloads}
        \cup {[d EXCEPT !.name = NoVal] : d \in ValidRoomPayloads}
        \cup {NoReq}
RoomPayloads == ValidRoomPayloads \cup InvalidRoomPayloads

\* message_data of save_message; id -1 and timestamp 0 mean "not built".
NoData == [name |-> NoVal, message |-> NoVal, timestamp |-> 0, id |-> -1]

\* What one emit()/send() call delivers: the event, the connections that
\* receive it, the room it was addressed to (NoVal: the caller only), the
\* message payload and, for chat_history, the list of stored messages.
NoMsg == [name |-> NoVal, message |-> NoVal, subject |-> NoVal, timestamp |-> 0]
NoOut == [event |-> "none", to |-> {}, room |-> NoVal, msg |-> NoMsg, history |-> <<>>]

VARIABLES
    messages,   \* MessageServer.messages: ordered dict, a sequence of [room, log]
    file,       \* messages.json: [kind, entries]
    members,    \* socket.io rooms: room -> set of connections
    pc,         \* per connection: the position of its handler
    req,        \* per connection: the payload of the event being handled
    message_data, \* per connection: message_data built by save_message
    buf,        \* per connection: what json.dump has serialised
    pre,        \* per connection: the file and the room's log when save_message was called
    now,        \* the server clock
    committed,  \* per room: the messages loaded or saved with result True
    out,        \* the last emission
    inbox,      \* per connection: the events it has received, when observed
    connected,  \* MessageClient.connected
    identity,   \* MessageClient.room and MessageClient.name
    cpc,        \* the client: its position in main() and connect_to_server()
    site,       \* the client: which call of connect_to_server is running or ran last
    retry_count, \* connect_to_server: retry_count
    returned,   \* connect_to_server: what the last call returned
    tried,      \* connect_to_server: the outcomes of sio.connect in this call
    wire        \* the events the client has emitted and the server has not yet taken

serverVars == <<messages, file, members, pc, req, message_data, buf, pre, now, committed, out>>

clientVars == <<connected, identity, cpc, site, retry_count, returned, tried, wire>>

vars == <<serverVars, inbox, clientVars>>

\* ------------------------------------------------------------ the store
Has(store, room) == \E i \in 1..Len(store) : store[i].room = room

Idx(store, room) == CHOOSE i \in 1..Len(store) : store[i].room = room

\* dict.get(room, [])
Get(store, room) == IF Has(store, room) THEN store[Idx(store, room)].log ELSE <<>>

\* self.messages[room].append(message_data)
AppendTo(store, room, m) ==
    [store EXCEPT ![Idx(store, room)].log = Append(@, m)]

\* d[key] = value
Put(store, room, log) ==
    IF Has(store, room)
    THEN [store EXCEPT ![Idx(store, room)].log = log]
    ELSE Append(store, [room |-> room, log |-> log])

KeysOf(store) == {store[i].room : i \in 1..Len(store)}

\* dict equality: same keys, same values, whatever the order.
StoreEq(a, b) ==
    /\ KeysOf(a) = KeysOf(b)
    /\ \A r \in KeysOf(a) : Get(a, r) = Get(b, r)

\* ------------------------------------------------------------- the file
\* json.dump writes a key that is a number as the string of its digits.
JsonKey(room) == IF room = "n:1" THEN "s:1" ELSE room

\* json.dump(self.messages): one entry per key, in dict order.
ToJson(store) ==
    [i \in 1..Len(store) |-> [room |-> JsonKey(store[i].room), log |-> store[i].log]]

\* json.load: an object; of two entries with the same key the last one wins.
RECURSIVE FromJson(_)
FromJson(entries) ==
    IF entries = <<>> THEN <<>>
    ELSE LET e == entries[Len(entries)]
         IN  Put(FromJson(SubSeq(entries, 1, Len(entries) - 1)), e.room, e.log)

Absent == [kind |-> "absent", entries |-> <<>>]
\* Content json.load rejects: garbage, a truncated or an empty file.
Invalid == [kind |-> "invalid", entries |-> <<>>]
Valid(entries) == [kind |-> "valid", entries |-> entries]
\* A file damaged from outside: json.load rejects it, although a message can
\* still be read in it.
Corrupt ==
    [kind |-> "invalid",
     entries |-> <<[room |-> "s:1",
                    log |-> <<[name |-> "a", message |-> "x", timestamp |-> 0, id |-> 0]>>]>>]

NoPre == [file |-> Absent, log |-> <<>>]

\* self.room = None, self.name = None
NoIdentity == [room |-> NoVal, name |-> NoVal]

\* Mutant of LoadAllMessages: whatever can be read in the file is loaded.
LoadAllMessagesLenient(f) == FromJson(f.entries)

\* _load_all_messages: {} when the file is absent or json.load raises.
LoadAllMessages(f) == IF f.kind = "valid" THEN FromJson(f.entries) ELSE <<>>

RECURSIVE SizeOf(_)
SizeOf(entries) ==
    IF entries = <<>> THEN 0
    ELSE 1 + Len(entries[1].log) + SizeOf(Tail(entries))

\* close() flushes the serialised text (held in the writer's buffer until
\* then) at offset 0 of a file opened "w".  The file is empty unless another
\* writer flushed since; a longer text already there keeps its tail after
\* the new text, which no longer parses.
Flush(f, entries) ==
    IF f.kind = "valid" /\ SizeOf(f.entries) > SizeOf(entries)
    THEN Invalid
    ELSE Valid(entries)

\* ------------------------------------------------------------ emissions
\* emit("error", {"message": text}): to the calling connection only.
EmitError(c, text) ==
    [event |-> "error", to |-> {c}, room |-> NoVal,
     msg |-> [NoMsg EXCEPT !.message = text], history |-> <<>>]

\* send(data, to=room): to every connection in the room, the caller included.
SendTo(room, m) ==
    [event |-> "message", to |-> members[room], room |-> room, msg |-> m, history |-> <<>>]

AllIdle == \A k \in Conns : pc[k] = "idle"

Finish(c) ==
    /\ pc' = [pc EXCEPT ![c] = "idle"]
    /\ req' = [req EXCEPT ![c] = NoReq]
    /\ message_data' = [message_data EXCEPT ![c] = NoData]
    /\ buf' = [buf EXCEPT ![c] = <<>>]
    /\ pre' = [pre EXCEPT ![c] = NoPre]

Goto(c, label) == pc' = [pc EXCEPT ![c] = label]

\* ----------------------------------------------------------------- Init
Init ==
    /\ file \in {Absent, Corrupt}
    /\ messages = LoadAllMessages(file)
    /\ members = [r \in Rooms |-> {}]
    /\ pc = [c \in Conns |-> "idle"]
    /\ req = [c \in Conns |-> NoReq]
    /\ message_data = [c \in Conns |-> NoData]
    /\ buf = [c \in Conns |-> <<>>]
    /\ pre = [c \in Conns |-> NoPre]
    /\ now = 1
    /\ committed = [r \in Rooms |-> <<>>]
    /\ out = NoOut
    /\ inbox = [c \in Conns |-> <<>>]
    /\ connected = FALSE
    /\ identity = NoIdentity
    /\ cpc = "main_setup"
    /\ site = "none"
    /\ retry_count = 0
    /\ returned = "none"
    /\ tried = <<>>
    /\ wire = <<>>

\* ------------------------------------------------- save_message, by step
\* Mutant of NextId: one counter for all rooms.
NextIdGlobal(store, room) == SizeOf(store) - Len(store)

\* "id": len(self.messages[room])
NextId(store, room) == Len(Get(store, room))

\* message_data of save_message
MessageData(data, store, clock) ==
    [name |-> data.name, message |-> data.message, timestamp |-> clock,
     id |-> NextId(store, data.room)]

\* handle_message: the checks of the payload
MessageRoomMissing(data) == data.room = NoVal

MessageInvalid(data) == data.name = NoVal \/ data.message = NoVal

\* The clock is read once per stored message; the bound on messages bounds it.
ClockLeft(alone) ==
    (now - 1) + Cardinality({k \in Conns : pc[k] \in {"sm_init", "sm_build"}})
        < (IF alone THEN MaxSeqMsgs ELSE MaxMsgs)

\* handle_message up to the call of save_message, and save_message's test
\* "if room not in self.messages", its first access to the shared store.
HandleMessage(c, data, alone) ==
    /\ pc[c] = "idle"
    /\ alone => AllIdle
    /\ IF MessageRoomMissing(data)
       THEN /\ out' = EmitError(c, "Room not specified")
            /\ UNCHANGED <<pc, req, pre>>
       ELSE IF MessageInvalid(data)
       THEN /\ out' = EmitError(c, "Invalid message format")
            /\ UNCHANGED <<pc, req, pre>>
       ELSE /\ ClockLeft(alone)
            /\ Goto(c, IF Has(messages, data.room) THEN "sm_build" ELSE "sm_init")
            /\ req' = [req EXCEPT ![c] = data]
            /\ pre' = [pre EXCEPT ![c] = [file |-> file, log |-> Get(messages, data.room)]]
            /\ out' = NoOut
    /\ UNCHANGED <<messages, file, members, message_data, buf, now, committed>>

\*     self.messages[room] = []
SaveInitRoom(c) ==
    /\ pc[c] = "sm_init"
    /\ messages' = Put(messages, req[c].room, <<>>)
    /\ Goto(c, "sm_build")
    /\ out' = NoOut
    /\ UNCHANGED <<file, members, req, message_data, buf, pre, now, committed>>

\* message_data = {..., "timestamp": now, "id": len(self.messages[room])}
SaveBuild(c) ==
    /\ pc[c] = "sm_build"
    /\ message_data' = [message_data EXCEPT ![c] = MessageData(req[c], messages, now)]
    /\ now' = now + 1
    /\ Goto(c, "sm_append")
    /\ out' = NoOut
    /\ UNCHANGED <<messages, file, members, req, buf, pre, committed>>

\* self.messages[room].append(message_data)
SaveAppend(c) ==
    /\ pc[c] = "sm_append"
    /\ messages' = AppendTo(messages, req[c].room, message_data[c])
    /\ Goto(c, "sm_open")
    /\ out' = NoOut
    /\ UNCHANGED <<file, members, req, message_data, buf, pre, now, committed>>

\* Mutant of AfterSave: the result of save_message is not looked at.
AfterSaveIgnored(ok) == "hm_send"

\* if message_server.save_message(room, data): send ... else: emit("error", ...)
AfterSave(ok) == IF ok THEN "hm_send" ELSE "hm_fail"

\* open(self.message_file, "w"): truncates the file, or raises and leaves it.
SaveOpen(c) ==
    /\ pc[c] = "sm_open"
    /\ \E ok \in BOOLEAN :
         IF ok
         THEN /\ file' = Invalid
              /\ Goto(c, "sm_dump")
         ELSE /\ file' = file
              /\ Goto(c, AfterSave(FALSE))
    /\ out' = NoOut
    /\ UNCHANGED <<messages, members, req, message_data, buf, pre, now, committed>>

\* json.dump(self.messages, f, indent=4): serialises into the writer's buffer.
SaveDump(c) ==
    /\ pc[c] = "sm_dump"
    /\ buf' = [buf EXCEPT ![c] = ToJson(messages)]
    /\ Goto(c, "sm_close")
    /\ out' = NoOut
    /\ UNCHANGED <<messages, file, members, req, message_data, pre, now, committed>>

\* Leaving the with block flushes and closes: return True; or the write
\* raises (disk full), the text is not written, and save_message returns False.
SaveClose(c) ==
    /\ pc[c] = "sm_close"
    /\ \E ok \in BOOLEAN :
         IF ok
         THEN /\ file' = Flush(file, buf[c])
              /\ committed' = [committed EXCEPT ![req[c].room] = Append(@, message_data[c])]
              /\ Goto(c, AfterSave(TRUE))
         ELSE /\ file' = file
              /\ committed' = committed
              /\ Goto(c, AfterSave(FALSE))
    /\ out' = NoOut
    /\ UNCHANGED <<messages, members, req, message_data, buf, pre, now>>

\* What handle_message broadcasts is the payload it received.
UserMsg(data) == [NoMsg EXCEPT !.name = data.name, !.message = data.message]

\* if message_server.save_message(room, data): send(data, to=room)
MessageSend(c) ==
    /\ pc[c] = "hm_send"
    /\ out' = SendTo(req[c].room, UserMsg(req[c]))
    /\ Finish(c)
    /\ UNCHANGED <<messages, file, members, now, committed>>

\* else: emit("error", {"message": "Failed to save message"})
MessageFail(c) ==
    /\ pc[c] = "hm_fail"
    /\ out' = EmitError(c, "Failed to save message")
    /\ Finish(c)
    /\ UNCHANGED <<messages, file, members, now, committed>>

\* ------------------------------------------------------------ handle_join
\* Mutant of JoinInvalid: only the room is checked.
JoinInvalidRoomOnly(data) == data.room = NoVal

\* if not room or not name:
JoinInvalid(data) == data.room = NoVal \/ data.name = NoVal

\* Mutant of JoinRoom: the call of join_room is missing.
JoinRoomMissing(mem, room, c) == mem

\* join_room(room)
JoinRoom(mem, room, c) == [mem EXCEPT ![room] = @ \cup {c}]

\* leave_room(room)
LeaveRoom(mem, room, c) == [mem EXCEPT ![room] = @ \ {c}]

SystemMsg(name, text, clock) ==
    [name |-> "System", message |-> text, subject |-> name, timestamp |-> clock]

\* handle_join up to join_room(room)
HandleJoin(c, data, alone) ==
    /\ pc[c] = "idle"
    /\ alone => AllIdle
    /\ IF JoinInvalid(data)
       THEN /\ out' = EmitError(c, "Room and name are required")
            /\ UNCHANGED <<pc, req, members>>
       ELSE /\ members' = JoinRoom(members, data.room, c)
            /\ Goto(c, "hj_history")
            /\ req' = [req EXCEPT ![c] = data]
            /\ out' = NoOut
    /\ UNCHANGED <<messages, file, message_data, buf, pre, now, committed>>

\* load_room_messages
LoadRoomMessages(room) == Get(messages, room)

\* Mutant of ChatHistory: the history is emitted with broadcast=True.
ChatHistoryBroadcast(c, previous) ==
    [event |-> "chat_history", to |-> Conns, room |-> NoVal,
     msg |-> NoMsg, history |-> previous]

\* emit("chat_history", previous_messages): to the calling connection only.
ChatHistory(c, previous) ==
    [event |-> "chat_history", to |-> {c}, room |-> NoVal,
     msg |-> NoMsg, history |-> previous]

\* previous_messages = load_room_messages(room)
\* if previous_messages: emit("chat_history", previous_messages)
JoinHistory(c) ==
    /\ pc[c] = "hj_history"
    /\ LET previous == LoadRoomMessages(req[c].room)
       IN  out' = IF previous # <<>> THEN ChatHistory(c, previous) ELSE NoOut
    /\ Goto(c, "hj_send")
    /\ UNCHANGED <<messages, file, members, req, message_data, buf, pre, now, committed>>

\* send(join_message, to=room)
JoinSend(c) ==
    /\ pc[c] = "hj_send"
    /\ out' = SendTo(req[c].room, SystemMsg(req[c].name, "joined the room", now))
    /\ Finish(c)
    /\ UNCHANGED <<messages, file, members, now, committed>>

\* ----------------------------------------------------------- handle_leave
\* handle_leave up to leave_room(room)
HandleLeave(c, data, alone) ==
    /\ pc[c] = "idle"
    /\ alone => AllIdle
    /\ IF JoinInvalid(data)
       THEN /\ out' = EmitError(c, "Room and name are required")
            /\ UNCHANGED <<pc, req, members>>
       ELSE /\ members' = LeaveRoom(members, data.room, c)
            /\ Goto(c, "hl_send")
            /\ req' = [req EXCEPT ![c] = data]
            /\ out' = NoOut
    /\ UNCHANGED <<messages, file, message_data, buf, pre, now, committed>>

\* send(leave_message, to=room)
LeaveSend(c) ==
    /\ pc[c] = "hl_send"
    /\ out' = SendTo(req[c].room, SystemMsg(req[c].name, "left the room", now))
    /\ Finish(c)
    /\ UNCHANGED <<messages, file, members, now, committed>>

\* ------------------------------------------------------- the environment
\* The transport closes a connection: socket.io drops it from every room.
\* No handler of the server runs (it registers none for disconnect).
Disconnect(c) ==
    /\ pc[c] = "idle"
    /\ \E r \in Rooms : c \in members[r]
    /\ members' = [r \in Rooms |-> members[r] \ {c}]
    /\ out' = NoOut
    /\ UNCHANGED <<messages, file, pc, req, message_data, buf, pre, now, committed>>

\* The process ends at any point and a new one starts:
\* message_server = MessageServer() loads the file; no connection survives.
Restart ==
    /\ messages' = LoadAllMessages(file)
    /\ committed' = [r \in Rooms |-> Get(LoadAllMessages(file), r)]
    /\ members' = [r \in Rooms |-> {}]
    /\ pc' = [c \in Conns |-> "idle"]
    /\ req' = [c \in Conns |-> NoReq]
    /\ message_data' = [c \in Conns |-> NoData]
    /\ buf' = [c \in Conns |-> <<>>]
    /\ pre' = [c \in Conns |-> NoPre]
    /\ out' = NoOut
    /\ UNCHANGED <<file, now>>

\* A step of the server alone: the client does nothing and no delivery is
\* recorded.
ServerOnly == UNCHANGED <<inbox, clientVars>>

\* Handlers of different connections interleave.
Next ==
    \/ \E c \in Conns, data \in MessagePayloads : HandleMessage(c, data, FALSE) /\ ServerOnly
    \/ \E c \in Conns, data \in RoomPayloads : HandleJoin(c, data, FALSE) /\ ServerOnly
    \/ \E c \in Conns, data \in RoomPayloads : HandleLeave(c, data, FALSE) /\ ServerOnly
    \/ \E c \in Conns : SaveInitRoom(c) /\ ServerOnly
    \/ \E c \in Conns : SaveBuild(c) /\ ServerOnly
    \/ \E c \in Conns : SaveAppend(c) /\ ServerOnly
    \/ \E c \in Conns : SaveOpen(c) /\ ServerOnly
    \/ \E c \in Conns : SaveDump(c) /\ ServerOnly
    \/ \E c \in Conns : SaveClose(c) /\ ServerOnly
    \/ \E c \in Conns : MessageSend(c) /\ ServerOnly
    \/ \E c \in Conns : MessageFail(c) /\ ServerOnly
    \/ \E c \in Conns : JoinHistory(c) /\ ServerOnly
    \/ \E c \in Conns : JoinSend(c) /\ ServerOnly
    \/ \E c \in Conns : LeaveSend(c) /\ ServerOnly
    \/ \E c \in Conns : Disconnect(c) /\ ServerOnly
    \/ Restart /\ ServerOnly

Spec == Init /\ [][Next]_vars

\* A handler starts only when no other is in flight.
SeqNext ==
    \/ \E c \in Conns, data \in MessagePayloads : HandleMessage(c, data, TRUE) /\ ServerOnly
    \/ \E c \in Conns, data \in RoomPayloads : HandleJoin(c, data, TRUE) /\ ServerOnly
    \/ \E c \in Conns, data \in RoomPayloads : HandleLeave(c, data, TRUE) /\ ServerOnly
    \/ \E c \in Conns : SaveInitRoom(c) /\ ServerOnly
    \/ \E c \in Conns : SaveBuild(c) /\ ServerOnly
    \/ \E c \in Conns : SaveAppend(c) /\ ServerOnly
    \/ \E c \in Conns : SaveOpen(c) /\ ServerOnly
    \/ \E c \in Conns : SaveDump(c) /\ ServerOnly
    \/ \E c \in Conns : SaveClose(c) /\ ServerOnly
    \/ \E c \in Conns : MessageSend(c) /\ ServerOnly
    \/ \E c \in Conns : MessageFail(c) /\ ServerOnly
    \/ \E c \in Conns : JoinHistory(c) /\ ServerOnly
    \/ \E c \in Conns : JoinSend(c) /\ ServerOnly
    \/ \E c \in Conns : LeaveSend(c) /\ ServerOnly
    \/ \E c \in Conns : Disconnect(c) /\ ServerOnly
    \/ Restart /\ ServerOnly

SeqSpec == Init /\ [][SeqNext]_vars

\* ------------------------------------------------------ observed delivery
\* What the connections receive is recorded when the messages can be told
\* apart: one room, and every text sent at most once.
DeliveryRoom == "s:1"
DeliveryTexts == {"x", "y"}
DeliveryMessages == [room : {DeliveryRoom}, name : Names, message : DeliveryTexts]
DeliveryJoins == [room : {DeliveryRoom}, name : Names, message : {NoVal}]

TextsOf(log) == [j \in 1..Len(log) |-> log[j].message]

\* No message event with this text has been received by the server.
Unsent(text) ==
    /\ \A c \in Conns : req[c].message # text
    /\ \A j \in 1..Len(Get(messages, DeliveryRoom)) : Get(messages, DeliveryRoom)[j].message # text
    /\ \A j \in 1..Len(committed[DeliveryRoom]) : committed[DeliveryRoom][j].message # text

\* What a client gets from one emission: the text of a user message (the
\* client's on_message), or the texts of a chat_history (on_chat_history).
Received(e) ==
    IF e.event = "chat_history"
    THEN [via |-> "history", texts |-> TextsOf(e.history)]
    ELSE [via |-> "live", texts |-> <<e.msg.message>>]

\* The emission of the step reaches the connections it is addressed to.
\* Errors and system notices are not recorded.
Observed ==
    /\ inbox' = [c \in Conns |->
                    IF /\ c \in out'.to
                       /\ \/ out'.event = "chat_history"
                          \/ out'.event = "message" /\ out'.msg.name # "System"
                    THEN Append(inbox[c], Received(out'))
                    ELSE inbox[c]]
    /\ UNCHANGED clientVars

\* Messages and joins for one room, handlers interleaving; every connection
\* joins at most once and nobody leaves.
DeliveryNext ==
    \/ \E c \in Conns, data \in DeliveryMessages :
            Unsent(data.message) /\ HandleMessage(c, data, FALSE) /\ Observed
    \/ \E c \in Conns, data \in DeliveryJoins :
            c \notin members[data.room] /\ HandleJoin(c, data, FALSE) /\ Observed
    \/ \E c \in Conns : SaveInitRoom(c) /\ Observed
    \/ \E c \in Conns : SaveBuild(c) /\ Observed
    \/ \E c \in Conns : SaveAppend(c) /\ Observed
    \/ \E c \in Conns : SaveOpen(c) /\ Observed
    \/ \E c \in Conns : SaveDump(c) /\ Observed
    \/ \E c \in Conns : SaveClose(c) /\ Observed
    \/ \E c \in Conns : MessageSend(c) /\ Observed
    \/ \E c \in Conns : MessageFail(c) /\ Observed
    \/ \E c \in Conns : JoinHistory(c) /\ Observed
    \/ \E c \in Conns : JoinSend(c) /\ Observed

DeliverySpec == Init /\ [][DeliveryNext]_vars

\* ------------------------------------------------------------ the client
\* One client process (socketio_client.py, main) on connection Cl, and the
\* server handling the events of that connection in the order they were
\* emitted, one at a time.
Cl == 1

\* max_retries = 3
max_retries == 3

\* Events emitted by the client and not yet taken by the server.
MaxWire == 2

ClientEvent(event, id, text) ==
    [event |-> event, data |-> [room |-> id.room, name |-> id.name, message |-> text]]

\* Mutant of RetryLeft: the comparison is off by one.
RetryLeftInclusive(n) == n <= max_retries

\* retry_count < max_retries
RetryLeft(n) == n < max_retries

\* Mutant of OnConnectEmits: on_connect does not join.
OnConnectSilent(id) == <<>>

\* on_connect: if self.room and self.name: self.join_room(self.room, self.name)
OnConnectEmits(id) ==
    IF id.room # NoVal /\ id.name # NoVal
    THEN <<ClientEvent("join", id, NoVal)>>
    ELSE <<>>

\* Where main continues after connect_to_server has returned.
AfterConnect(from, ok) ==
    IF from = "first"
    THEN (IF ok THEN "main_loop" ELSE "exited")
    ELSE (IF ok THEN "main_send" ELSE "main_exit")

\* main: client.name and client.room are read before anything else; the
\* room typed or passed as --room is a string.
MainSetup ==
    /\ cpc = "main_setup"
    /\ \E r \in StrRooms, n \in Names : identity' = [room |-> r, name |-> n]
    /\ site' = "first"
    /\ cpc' = "cts_enter"
    /\ UNCHANGED <<serverVars, inbox, connected, retry_count, returned, tried, wire>>

\* connect_to_server: retry_count = 0
ConnectEnter ==
    /\ cpc = "cts_enter"
    /\ retry_count' = 0
    /\ tried' = <<>>
    /\ returned' = "none"
    /\ cpc' = "cts_loop"
    /\ UNCHANGED <<serverVars, inbox, connected, identity, site, wire>>

\* connect_to_server: one evaluation of the while condition and, if it
\* holds, one self.sio.connect(...).  When the connection is made on_connect
\* runs before connect returns.
ConnectAttempt ==
    /\ cpc = "cts_loop"
    /\ IF ~connected /\ RetryLeft(retry_count)
       THEN \E ok \in BOOLEAN :
              /\ tried' = Append(tried, ok)
              /\ IF ok
                 THEN /\ connected' = TRUE
                      /\ wire' = wire \o OnConnectEmits(identity)
                      /\ returned' = "True"
                      /\ cpc' = AfterConnect(site, TRUE)
                      /\ UNCHANGED retry_count
                 ELSE /\ retry_count' = retry_count + 1
                      /\ IF RetryLeft(retry_count + 1)
                         THEN UNCHANGED <<returned, cpc>>
                         ELSE /\ returned' = "False"
                              /\ cpc' = AfterConnect(site, FALSE)
                      /\ UNCHANGED <<connected, wire>>
       ELSE /\ returned' = "False"
            /\ cpc' = AfterConnect(site, FALSE)
            /\ UNCHANGED <<connected, wire, retry_count, tried>>
    /\ UNCHANGED <<serverVars, inbox, identity, site>>

\* main: the user types "exit", or a message; before a message is sent a
\* client that is not connected reconnects.
MainInput ==
    /\ cpc = "main_loop"
    /\ \/ cpc' = "main_exit" /\ UNCHANGED site
       \/ IF connected
          THEN cpc' = "main_send" /\ UNCHANGED site
          ELSE cpc' = "cts_enter" /\ site' = "re"
    /\ UNCHANGED <<serverVars, inbox, connected, identity, retry_count, returned, tried, wire>>

\* send_message: self.sio.emit("message", ...); on a closed connection emit
\* raises and the error is logged.
SendMessage ==
    /\ cpc = "main_send"
    /\ Len(wire) < MaxWire
    /\ IF connected
       THEN \E text \in Texts : wire' = Append(wire, ClientEvent("message", identity, text))
       ELSE UNCHANGED wire
    /\ cpc' = "main_loop"
    /\ UNCHANGED <<serverVars, inbox, connected, identity, site, retry_count, returned, tried>>

\* main, finally: client.disconnect(): if connected, leave_room() emits
\* leave, then the transport is closed.
MainExit ==
    /\ cpc = "main_exit"
    /\ Len(wire) < MaxWire
    /\ IF connected
       THEN wire' = Append(wire, ClientEvent("leave", identity, NoVal))
       ELSE UNCHANGED wire
    /\ connected' = FALSE
    /\ cpc' = "exited"
    /\ UNCHANGED <<serverVars, inbox, identity, site, retry_count, returned, tried>>

\* The connection is lost: on_disconnect runs in the client, the server drops
\* the connection from every room, and what the server has not taken is lost.
Drop ==
    /\ connected
    /\ pc[Cl] = "idle"
    /\ connected' = FALSE
    /\ wire' = <<>>
    /\ members' = [r \in Rooms |-> members[r] \ {Cl}]
    /\ out' = NoOut
    /\ UNCHANGED <<messages, file, pc, req, message_data, buf, pre, now, committed>>
    /\ UNCHANGED <<inbox, identity, cpc, site, retry_count, returned, tried>>

\* The server takes the next event of the connection and starts its handler.
Taken ==
    /\ wire' = Tail(wire)
    /\ UNCHANGED <<inbox, connected, identity, cpc, site, retry_count, returned, tried>>

ReceiveJoin ==
    /\ wire # <<>>
    /\ Head(wire).event = "join"
    /\ HandleJoin(Cl, Head(wire).data, TRUE)
    /\ Taken

ReceiveMessage ==
    /\ wire # <<>>
    /\ Head(wire).event = "message"
    /\ HandleMessage(Cl, Head(wire).data, TRUE)
    /\ Taken

ReceiveLeave ==
    /\ wire # <<>>
    /\ Head(wire).event = "leave"
    /\ HandleLeave(Cl, Head(wire).data, TRUE)
    /\ Taken

ClientNext ==
    \/ MainSetup
    \/ ConnectEnter
    \/ ConnectAttempt
    \/ MainInput
    \/ SendMessage
    \/ MainExit
    \/ Drop
    \/ ReceiveJoin
    \/ ReceiveMessage
    \/ ReceiveLeave
    \/ SaveInitRoom(Cl) /\ ServerOnly
    \/ SaveBuild(Cl) /\ ServerOnly
    \/ SaveAppend(Cl) /\ ServerOnly
    \/ SaveOpen(Cl) /\ ServerOnly
    \/ SaveDump(Cl) /\ ServerOnly
    \/ SaveClose(Cl) /\ ServerOnly
    \/ MessageSend(Cl) /\ ServerOnly
    \/ MessageFail(Cl) /\ ServerOnly
    \/ JoinHistory(Cl) /\ ServerOnly
    \/ JoinSend(Cl) /\ ServerOnly
    \/ LeaveSend(Cl) /\ ServerOnly

ClientSpec == Init /\ [][ClientNext]_vars

\* ================================================================ claims
RoomLog(room) == Get(messages, room)

\* C1: when save_message calls do not overlap, the messages stored for every
\* room carry the ids 0, 1, 2, ... in append order, whatever was appended to
\* other rooms in between.
C1_IdsCountPerRoom ==
    \A i \in 1..Len(messages) :
        \A j \in 1..Len(messages[i].log) : messages[i].log[j].id = j - 1

\* C1 witness: one room holds two messages, another room holds one, and no
\* call is running.
C1_TwoRoomsAppended ==
    /\ AllIdle
    /\ \E r1, r2 \in Rooms :
        /\ r1 # r2
        /\ Len(RoomLog(r1)) >= 2
        /\ Len(RoomLog(r2)) >= 1

\* C2: with message events handled concurrently, no two messages stored in a
\* room have the same id and the ids of a room have no gaps.
C2_ConcurrentIdsUniqueNoGaps ==
    \A r \in Rooms :
        LET log == RoomLog(r)
        IN  /\ \A j, k \in 1..Len(log) : j # k => log[j].id # log[k].id
            /\ {log[j].id : j \in 1..Len(log)} = 0..(Len(log) - 1)

\* C3: when save_message has returned False, the room's in-memory log is what
\* it was before the call.
C3_FailedSaveRolledBack ==
    \A c \in Conns : pc[c] = "hm_fail" => RoomLog(req[c].room) = pre[c].log

\* C4: between calls, load_room_messages(room) returns exactly the messages
\* whose save_message returned True (or that were loaded), in append order; for
\* a room never appended to it returns the empty sequence.
C4_LoadReturnsSavedOnly ==
    AllIdle => \A r \in Rooms : LoadRoomMessages(r) = committed[r]

\* C5: a save_message that fails leaves the durable file exactly as it was
\* before the call.
C5_FailedSaveLeavesFile ==
    \A c \in Conns : pc[c] = "hm_fail" => file = pre[c].file

\* C6: between calls, when every message in memory was loaded or saved with
\* result True, a new MessageServer on the same file loads a store identical
\* to the one in memory.
C6_ReloadIsIdentity ==
    (AllIdle /\ \A r \in Rooms : RoomLog(r) = committed[r])
        => StoreEq(LoadAllMessages(file), messages)

\* The step in which handle_join of connection c has called join_room(r).
JoinedBy(c, r) == pc[c] = "idle" /\ pc'[c] = "hj_history" /\ req'[c].room = r

\* The step in which handle_leave of connection c has called leave_room(r).
LeftBy(c, r) == pc[c] = "idle" /\ pc'[c] = "hl_send" /\ req'[c].room = r

\* The connection is gone: closed, or the server restarted.
ClosedFor(c) == \A r \in Rooms : c \notin members'[r]

\* C7: a connection is in a room's member set from its join until its leave
\* (or until the connection closes), and every broadcast to a room (user
\* message or system notice) goes to exactly the members of the room at that
\* moment.
C7_MembershipFanOut ==
    [][/\ \A c \in Conns, r \in Rooms :
            /\ JoinedBy(c, r) => c \in members'[r]
            /\ LeftBy(c, r) => c \notin members'[r]
            /\ (c \in members[r] /\ c \notin members'[r]) => (LeftBy(c, r) \/ ClosedFor(c))
            /\ (c \notin members[r] /\ c \in members'[r]) => JoinedBy(c, r)
       /\ out'.event = "message" =>
            /\ out'.to = members[out'.room]
            /\ members' = members
      ]_vars

\* C7 witness: a leave notice has just gone to the remaining member of a
\* room, and to nobody else.
C7_NoticeToRemainingMember ==
    /\ out.event = "message"
    /\ out.msg.message = "left the room"
    /\ out.to # {}
    /\ out.to # Conns
    /\ out.to = members[out.room]

\* C8: a connection is a member of at most one room.
C8_AtMostOneRoom ==
    \A c \in Conns : Cardinality({r \in Rooms : c \in members[r]}) <= 1

\* C9: a user message is broadcast only by a handler whose save_message has
\* appended it and returned True; a handler whose save_message returned False
\* sends an error to its own connection and nothing to the room.
C9_SaveThenBroadcast ==
    [][/\ (out'.event = "message" /\ out'.msg.name # "System") =>
            \E c \in Conns :
                /\ pc[c] = "hm_send" /\ pc'[c] = "idle"
                /\ out'.room = req[c].room
                /\ out'.msg = UserMsg(req[c])
                /\ \E j \in 1..Len(committed[req[c].room]) :
                        committed[req[c].room][j] = message_data[c]
       /\ \A c \in Conns :
            (pc[c] = "hm_fail" /\ pc'[c] = "idle" /\ ~Restart) =>
                /\ out'.event = "error"
                /\ out'.to = {c}
      ]_vars

\* C9 witness: the error of a failed save has gone to the sender alone while
\* another connection is a member of a room.
C9_FailureToSenderOnly ==
    /\ out.event = "error"
    /\ out.msg.message = "Failed to save message"
    /\ \E k \in Conns, r \in Rooms : k \notin out.to /\ k \in members[r]

\* The step sends an error to connection c alone and changes nothing else.
Rejected(c) ==
    /\ out'.event = "error"
    /\ out'.to = {c}
    /\ UNCHANGED <<members, messages, file, pc>>

\* C10: a join, leave or message event whose room or name (or, for a message,
\* text) is missing or empty gets an error sent to its connection alone;
\* nothing is broadcast, and neither the membership of a room nor the history
\* in memory or on disk changes.
C10_InvalidEventRejected ==
    [][\A c \in Conns :
        pc[c] = "idle" =>
            /\ \A d \in InvalidMessagePayloads :
                    HandleMessage(c, d, TRUE) => Rejected(c)
            /\ \A d \in InvalidRoomPayloads :
                    (HandleJoin(c, d, TRUE) \/ HandleLeave(c, d, TRUE)) => Rejected(c)
      ]_vars

\* C10 witness: a rejection has just been sent while a room has a member and
\* the store holds a message.
C10_RejectedInUse ==
    /\ out.event = "error"
    /\ out.msg.message \in {"Room not specified", "Invalid message format",
                            "Room and name are required"}
    /\ \E r \in Rooms : members[r] # {} /\ RoomLog(r) # <<>>

\* The step of handle_join of connection c between join_room and the join
\* notice: the history is loaded and, if the code decides so, emitted.
HistoryStep(c) == pc[c] = "hj_history" /\ pc'[c] = "hj_send"

\* The ids of a list of messages increase from one message to the next.
IdOrder(log) == \A j \in 1..(Len(log) - 1) : log[j].id < log[j + 1].id

C12_NoticeNotToJoiner ==
    [][\A c \in Conns :
        (pc[c] = "hj_send" /\ pc'[c] = "idle" /\ out'.event = "message") =>
            /\ c \notin out'.to
            /\ out'.to = members[req[c].room] \ {c}
      ]_vars

\* A MessageServer that has just been constructed holds no room, and
\* load_room_messages returns the empty list for every room.
StartedEmpty == messages = <<>> /\ \A r \in Rooms : LoadRoomMessages(r) = <<>>

\* C13: constructing MessageServer on a file that is absent, or that exists
\* and cannot be parsed, gives an empty store: load_room_messages returns the
\* empty sequence for every room.  Construction happens at the start of the
\* process and at every restart.
C13_UnreadableFileStartsEmpty ==
    /\ file.kind # "valid" => StartedEmpty
    /\ [][(Restart /\ file.kind # "valid") => StartedEmpty']_vars

\* C13 witness: a message was handled, the process restarted on a file that
\* does not parse, and the new process holds an empty store.
C13_RestartedOnUnreadableFile ==
    /\ file.kind = "invalid"
    /\ now > 1
    /\ AllIdle
    /\ StartedEmpty

\* Every message in memory was loaded or written by a save_message that
\* returned True: no append met an I/O error.
NoFailedAppend ==
    \A r \in Rooms :
        \A j \in 1..Len(RoomLog(r)) :
            \E k \in 1..Len(committed[r]) : committed[r][k] = RoomLog(r)[j]

\* C14: the file rewrites of concurrent message events do not interleave:
\* when a user message has just been broadcast, no handler is in flight and
\* no append met an I/O error, the file holds the complete serialisation of
\* the store in memory.
C14_FileEqualsStoreWhenQuiet ==
    (/\ AllIdle
     /\ NoFailedAppend
     /\ out.event = "message"
     /\ out.msg.name # "System")
        => file = Valid(ToJson(messages))

\* C15: when the connection of a room member closes, the member is removed
\* from the room as by a leave and the remaining members (there is one) receive
\* the leave notice, also when the transport closes without a leave event.
C15_CloseSendsLeaveNotice ==
    [][\A c \in Conns, r \in Rooms :
        (Disconnect(c) /\ c \in members[r] /\ members[r] # {c}) =>
            /\ c \notin members'[r]
            /\ out'.event = "message"
            /\ out'.msg.message = "left the room"
            /\ out'.to = members'[r]
      ]_vars

\* The positions in the inbox of connection c at which the text arrived as a
\* live broadcast.
LiveAt(c, text) ==
    {p \in 1..Len(inbox[c]) : inbox[c][p].via = "live" /\ inbox[c][p].texts = <<text>>}

\* C16: of two user messages stored in a room, the one with the smaller id is
\* broadcast to a member before the one with the larger id, also when the two
\* message events are handled concurrently.
C16_DeliveredInIdOrder ==
    LET log == RoomLog(DeliveryRoom)
    IN  \A c \in Conns :
            \A a, b \in 1..Len(log) :
                log[a].id < log[b].id =>
                    \A p \in LiveAt(c, log[a].message), q \in LiveAt(c, log[b].message) : p < q

IsPrefix(a, b) == Len(a) <= Len(b) /\ SubSeq(b, 1, Len(a)) = a

\* C17: while the process runs, every step of a join, leave or message
\* handler (failed appends included) leaves each room's earlier in-memory log
\* a prefix of its later log, and no room's entry is removed from the store.
C17_LogsOnlyGrow ==
    [][~Restart =>
        \A r \in Rooms :
            /\ IsPrefix(RoomLog(r), RoomLog(r)')
            /\ Has(messages, r) => Has(messages', r)
      ]_vars

\* How often the text has reached connection c, in a chat_history or live.
Receipts(c, text) ==
    Cardinality({pj \in (1..Len(inbox[c])) \X (1..MaxMsgs) :
                    /\ pj[2] <= Len(inbox[c][pj[1]].texts)
                    /\ inbox[c][pj[1]].texts[pj[2]] = text})

\* C18: around a join that is concurrent with message events for the room, a
\* message stored successfully reaches the joining connection exactly once:
\* never both in the chat_history and as a live broadcast, and, once no
\* handler is in flight, not in neither.
C18_ExactlyOnceAroundJoin ==
    \A c \in Conns :
        \A j \in 1..Len(committed[DeliveryRoom]) :
            LET text == committed[DeliveryRoom][j].message
            IN  /\ Receipts(c, text) <= 1
                /\ (AllIdle /\ c \in members[DeliveryRoom]) => Receipts(c, text) >= 1

\* Every sio.connect of the running or last call of connect_to_server failed.
AllFailed == \A i \in 1..Len(tried) : ~tried[i]

====
